---- MODULE Spec2Model ----
(***************************************************************************)
(* A model of the enzyme/windmill request router and dispatch pipeline.     *)
(*                                                                         *)
(*   - src/src/router.rs    Router (route table, add, lookup), paths_match, *)
(*                          RawRoute::from_path, not_found, and the         *)
(*                          adapter closure Router::add wraps around an     *)
(*                          endpoint;                                       *)
(*   - src/src/endpoint.rs  Endpoint::new (the adapter with a context       *)
(*                          extractor), error_response, success_response.   *)
(*                                                                         *)
(* Strings of the URL path are sequences of one-character strings, so that  *)
(* splitting is computed rather than assumed.  Byte buffers (bodies) are    *)
(* TLA+ strings holding the JSON text.  Option<T> is a sequence of length   *)
(* 0 (None) or 1 (Some).                                                    *)
(***************************************************************************)
EXTENDS Naturals, Sequences, FiniteSets, TLC

VARIABLES
    adapter,    \* which adapter the build registers: Router::add's or Endpoint::new's
    table,      \* Router.table : HashMap<Method, Vec<Route>>
    serving,    \* registration has finished, the Router is shared (Arc<Self>)
    requests    \* one record per request task

vars == <<adapter, table, serving, requests>>

----------------------------------------------------------------------------
(* Bounds of the model *)

MaxRoutes == 2
MaxPathLen == 3
MaxRequests == 2
MaxMatchPathLen == 4

Requests == 1..MaxRequests

(* the request tasks Spec runs: one request, from dispatch to its outcome *)
Sequential == {1}

----------------------------------------------------------------------------
(* Status codes (http_types::StatusCode) *)

StatusOk == 200
BadRequest == 400
Unauthorized == 401
NotFound == 404
InternalServerError == 500

----------------------------------------------------------------------------
(* Option *)

None == <<>>
Some(x) == <<x>>
IsSome(o) == o # <<>>
Unwrap(o) == o[1]

----------------------------------------------------------------------------
(* JSON (serde_json), as far as the pipeline uses it *)

(* serializable values: JSON strings (messages) and response types *)
Msg(s) == [t |-> "String", s |-> s]
TestResponse == [t |-> "TestResponse", s |-> "true"]
Unserializable == [t |-> "Unserializable", s |-> ""]

Quote(s) == "\"" \o s \o "\""

(* serde_json::to_vec(&value) : Result<Vec<u8>, serde_json::Error> *)
to_vec(value) ==
    CASE value.t = "String" ->
            [ok |-> TRUE, bytes |-> Quote(value.s), msg |-> ""]
      [] value.t = "TestResponse" ->
            [ok |-> TRUE, bytes |-> "{\"success\":" \o value.s \o "}", msg |-> ""]
      [] OTHER ->
            [ok |-> FALSE, bytes |-> "", msg |-> "key must be a string"]

(* Req::default() of a request type { foo: String } *)
ReqDefault == [foo |-> ""]

ValidBody == "{\"foo\":\"x\"}"
InvalidBody == "{\"foo\":1}"
EmptyBody == ""

Bodies == {ValidBody, InvalidBody, EmptyBody}

(* serde_json::from_slice::<Req>(&body) *)
from_slice(body) ==
    CASE body = ValidBody ->
            [ok |-> TRUE, req |-> [foo |-> "x"], msg |-> ""]
      [] body = InvalidBody ->
            [ok |-> FALSE, req |-> ReqDefault,
             msg |-> "invalid type: integer 1, expected a string at line 1 column 9"]
      [] OTHER ->
            [ok |-> FALSE, req |-> ReqDefault,
             msg |-> "EOF while parsing a value at line 1 column 0"]

----------------------------------------------------------------------------
(* Routes *)

Methods == {"GET", "POST"}

PathChars == {"/", "a", "b"}

(* URL paths: they start with "/" *)
Paths ==
    UNION { { p \in [1..n -> PathChars] : p[1] = "/" } : n \in 1..MaxPathLen }

StaticSegment(value, position) == [value |-> value, position |-> position]
DynamicSegment(name, position) == [name |-> name, position |-> position]

(* the route skeletons route!(...) builds: /"a", /id, /"a"/id *)
Patterns ==
    { [static_segments |-> <<StaticSegment(<<"a">>, 0)>>,
       dynamic_segments |-> <<>>],
      [static_segments |-> <<>>,
       dynamic_segments |-> <<DynamicSegment("id", 0)>>],
      [static_segments |-> <<StaticSegment(<<"a">>, 0)>>,
       dynamic_segments |-> <<DynamicSegment("id", 1)>>] }

RECURSIVE Split(_)
(* str::split("/") *)
Split(s) ==
    IF \A i \in 1..Len(s) : s[i] # "/"
    THEN <<s>>
    ELSE LET i == CHOOSE k \in 1..Len(s) :
                     s[k] = "/" /\ \A j \in 1..(k - 1) : s[j] # "/"
         IN  <<SubSeq(s, 1, i - 1)>> \o Split(SubSeq(s, i + 1, Len(s)))

from_path_skip_empty(path) ==
    LET parts == Split(path)
        kept == SelectSeq(IF Len(parts) = 0 THEN <<>> ELSE Tail(parts),
                          LAMBDA part : part # <<>>)
    IN  [i \in 1..Len(kept) |-> [value |-> kept[i], position |-> i - 1]]

(* RawRoute::from_path: split("/").skip(1).enumerate() *)
from_path(path) ==
    LET parts == Split(path)
        kept == IF Len(parts) = 0 THEN <<>> ELSE Tail(parts)
    IN  [i \in 1..Len(kept) |-> [value |-> kept[i], position |-> i - 1]]

Lower(value) == [i \in 1..Len(value) |-> IF value[i] = "A" THEN "a" ELSE value[i]]

StaticEq_ignore_case(static_segment, raw_segment) ==
    /\ static_segment.position = raw_segment.position
    /\ Lower(static_segment.value) = Lower(raw_segment.value)

(* impl PartialEq<RawSegment> for StaticSegment *)
StaticEq(static_segment, raw_segment) ==
    /\ static_segment.position = raw_segment.position
    /\ static_segment.value = raw_segment.value

(* impl PartialEq<RawSegment> for DynamicSegment *)
DynamicEq(dynamic_segment, raw_segment) ==
    dynamic_segment.position = raw_segment.position

paths_match_longer(route, raw_segments) ==
    /\ Len(raw_segments) >= Len(route.static_segments) + Len(route.dynamic_segments)
    /\ \A i \in 1..Len(route.static_segments) :
          StaticEq(route.static_segments[i],
                   raw_segments[route.static_segments[i].position + 1])
    /\ \A i \in 1..Len(route.dynamic_segments) :
          DynamicEq(route.dynamic_segments[i],
                    raw_segments[route.dynamic_segments[i].position + 1])

paths_match(route, raw_segments) ==
    IF Len(raw_segments) = Len(route.static_segments) + Len(route.dynamic_segments)
    THEN /\ \A i \in 1..Len(route.static_segments) :
               StaticEq(route.static_segments[i],
                        raw_segments[route.static_segments[i].position + 1])
         /\ \A i \in 1..Len(route.dynamic_segments) :
               DynamicEq(route.dynamic_segments[i],
                         raw_segments[route.dynamic_segments[i].position + 1])
    ELSE FALSE

RECURSIVE ScanFrom(_, _, _)
(* routes.iter().filter(|route| paths_match(route, &raw_route)): the index of
   the first match at or after i, 0 when there is none *)
ScanFrom(routes, raw_segments, i) ==
    IF i > Len(routes) THEN 0
    ELSE IF paths_match(routes[i], raw_segments) THEN i
    ELSE ScanFrom(routes, raw_segments, i + 1)

RECURSIVE ScanLast(_, _, _)
ScanLast(routes, raw_segments, i) ==
    IF i < 1 THEN 0
    ELSE IF paths_match(routes[i], raw_segments) THEN i
    ELSE ScanLast(routes, raw_segments, i - 1)

first_match_last(routes, raw_segments) == ScanLast(routes, raw_segments, Len(routes))

(* .filter(..).nth(0) *)
first_match(routes, raw_segments) == ScanFrom(routes, raw_segments, 1)

RECURSIVE FoldParams_first_value(_, _, _)
FoldParams_first_value(dynamic_segments, raw_segments, params) ==
    IF dynamic_segments = <<>> THEN params
    ELSE FoldParams_first_value(Tail(dynamic_segments), raw_segments,
             { p \in params : p.name # Head(dynamic_segments).name }
                 \cup { [name |-> Head(dynamic_segments).name,
                         value |-> raw_segments[1].value] })

(* HashMap::insert on Params *)
ParamsInsert(params, name, value) ==
    { p \in params : p.name # name } \cup { [name |-> name, value |-> value] }

RECURSIVE FoldParams(_, _, _)
(* route.dynamic_segments.iter().fold(HashMap::new(), ...) *)
FoldParams(dynamic_segments, raw_segments, params) ==
    IF dynamic_segments = <<>> THEN params
    ELSE FoldParams(Tail(dynamic_segments), raw_segments,
                    ParamsInsert(params, Head(dynamic_segments).name,
                                 raw_segments[Head(dynamic_segments).position + 1].value))

----------------------------------------------------------------------------
(* Requests and outcomes *)

(* the media types of http_types::mime *)
JSON == "application/json"
BYTE_STREAM == "application/octet-stream"

NoOutcome ==
    [kind |-> "none", status |-> 0, content_type |-> None, body |-> "", error |-> ""]

(* Response::new(code): no header, an empty body *)
ResponseNew(code) ==
    [kind |-> "response", status |-> code, content_type |-> None, body |-> "",
     error |-> ""]

(* Response::new(code) followed by set_body(bytes), bytes a Vec<u8>: the body
   is a byte stream, and nothing calls set_content_type *)
Response(code, bytes) ==
    [ResponseNew(code) EXCEPT !.content_type = Some(BYTE_STREAM), !.body = bytes]

(* the adapter's future resolves to Err(std::io::Error) *)
Fault(error) == [NoOutcome EXCEPT !.kind = "err", !.error = error]

(* the adapter's task panics *)
Panic(error) == [NoOutcome EXCEPT !.kind = "panic", !.error = error]

IdleRequest ==
    [pc |-> "idle", method |-> "", path |-> <<>>, content_length |-> None,
     authorization |-> None, body |-> "",
     route |-> 0, handler |-> 0, params |-> {},
     has_body |-> FALSE, buf |-> None, context |-> None, arg |-> None,
     result |-> None, log |-> <<>>, outcome |-> NoOutcome]

Finish(req, outcome) == [req EXCEPT !.pc = "done", !.outcome = outcome]

Logged(req, step) == [req EXCEPT !.log = Append(req.log, step)]

(* the Content-Length header a client sends with a body: its length *)
ContentLengthOf(body) == ToString(Len(body))

(* req.header(&CONTENT_LENGTH).map(|values| values.first().map(|value|
   value.as_str() == "0")).flatten().unwrap_or_else(|| false) *)
has_body(req) ==
    IF IsSome(req.content_length) THEN Unwrap(req.content_length) = "0" ELSE FALSE

error_response_no_body(msg, code) == Response(code, "")

(* error_response: set_body(serde_json::to_vec(&msg)?) *)
error_response(msg, code) ==
    LET bytes == to_vec(msg)
    IN  IF bytes.ok THEN Response(code, bytes.bytes) ELSE Fault(bytes.msg)

success_response_created(msg) ==
    LET bytes == to_vec(msg)
    IN  IF bytes.ok THEN Response(201, bytes.bytes) ELSE Fault(bytes.msg)

(* success_response: set_body(serde_json::to_vec(&msg)?) *)
success_response(msg) ==
    LET bytes == to_vec(msg)
    IN  IF bytes.ok THEN Response(StatusOk, bytes.bytes) ELSE Fault(bytes.msg)

not_found_plain == Response(NotFound, "not found")

(* async fn not_found() *)
not_found == Response(NotFound, to_vec(Msg("not found")).bytes)

(* AuthContext::from_parts *)
from_parts(req) ==
    IF IsSome(req.authorization)
    THEN [ok |-> TRUE, user_token |-> Unwrap(req.authorization),
          code |-> 0, msg |-> Msg("")]
    ELSE [ok |-> FALSE, user_token |-> "",
          code |-> Unauthorized, msg |-> Msg("Unauthorized")]

(* what a user endpoint may return *)
HOk(res) == [ok |-> TRUE, res |-> res, code |-> 0, msg |-> Msg("")]
HErr(code, msg) == [ok |-> FALSE, res |-> Msg(""), code |-> code, msg |-> Msg(msg)]

HandlerResults ==
    { HOk(TestResponse), HOk(Unserializable),
      HErr(BadRequest, "body required"), HErr(NotFound, "not found") }

(* the endpoint is called with req: f(context, req) / endpoint.call(req, params) *)
CallEndpoint(req, arg) ==
    [Logged(req, "call") EXCEPT !.pc = "handler", !.arg = Some(arg)]

----------------------------------------------------------------------------
(* The adapters: the closures stored as Route.handler *)

(* Router::add's closure, up to its first await *)
RouterAddCall(req) ==
    LET r1 == [req EXCEPT !.has_body = has_body(req)]
    IN  IF r1.has_body
        THEN [Logged(r1, "read_to_end") EXCEPT !.pc = "read"]
        ELSE CallEndpoint(r1, ReqDefault)

(* Endpoint::new's closure, up to its first await *)
EndpointNewCall(req) ==
    LET r1 == [req EXCEPT !.has_body = has_body(req)]
    IN  [Logged(r1, "read_to_end") EXCEPT !.pc = "read"]

(* Router::add's closure after read_to_end(&mut body).await *)
RouterAddRead(req, io_ok) ==
    IF ~io_ok THEN Finish(req, Panic("read_to_end"))
    ELSE LET r1 == [Logged(req, "from_slice") EXCEPT !.buf = Some(req.body)]
             parsed == from_slice(req.body)
         IN  IF parsed.ok THEN CallEndpoint(r1, parsed.req)
             ELSE Finish(r1, Panic(parsed.msg))

EndpointNewRead_parse_first(req, io_ok) ==
    IF ~io_ok THEN Finish(req, Fault("read_to_end"))
    ELSE [Logged(Logged(req, "from_slice"), "from_parts")
             EXCEPT !.pc = "context", !.buf = Some(req.body)]

(* Endpoint::new's closure after req.read_to_end(&mut body).await? *)
EndpointNewRead(req, io_ok) ==
    IF ~io_ok THEN Finish(req, Fault("read_to_end"))
    ELSE [Logged(req, "from_parts") EXCEPT !.pc = "context", !.buf = Some(req.body)]

(* Endpoint::new's closure after Ctx::from_parts(&req, params).await *)
EndpointNewContext(req) ==
    LET cx == from_parts(req)
        r1 == [req EXCEPT !.context = Some(cx)]
    IN  IF ~cx.ok THEN Finish(r1, error_response(cx.msg, cx.code))
        ELSE IF r1.has_body
        THEN LET r2 == Logged(r1, "from_slice")
                 parsed == from_slice(Unwrap(r2.buf))
             IN  IF parsed.ok THEN CallEndpoint(r2, parsed.req)
                 ELSE Finish(r2, error_response(Msg(parsed.msg), BadRequest))
        ELSE CallEndpoint(r1, ReqDefault)

(* Router::add's closure after endpoint.call(req, params).await *)
RouterAddReturn(req, result) ==
    LET r1 == [req EXCEPT !.result = Some(result)]
    IN  IF ~result.ok THEN Finish(r1, ResponseNew(result.code))
        ELSE LET r2 == Logged(r1, "to_vec")
                 res_bytes == to_vec(result.res)
             IN  IF res_bytes.ok
                 THEN Finish(r2, Response(StatusOk, res_bytes.bytes))
                 ELSE Finish(r2, Panic(res_bytes.msg))

EndpointNewReturn_retry(req, result) ==
    LET r1 == Logged([req EXCEPT !.result = Some(result)], "to_vec")
    IN  IF result.ok THEN Finish(r1, success_response(result.res))
        ELSE IF Len(req.log) < 6 THEN CallEndpoint(req, Unwrap(req.arg))
        ELSE Finish(r1, error_response(result.msg, result.code))

(* Endpoint::new's closure after f(context, req).await *)
EndpointNewReturn(req, result) ==
    LET r1 == Logged([req EXCEPT !.result = Some(result)], "to_vec")
    IN  IF result.ok THEN Finish(r1, success_response(result.res))
        ELSE Finish(r1, error_response(result.msg, result.code))

----------------------------------------------------------------------------
(* Router *)

(* Router::lookup *)
lookup(tbl, kind, req) ==
    LET raw_route == from_path(req.path)
        maybe_route == IF req.method \in DOMAIN tbl
                       THEN first_match(tbl[req.method], raw_route)
                       ELSE 0
    IN  IF maybe_route = 0 THEN Finish(req, not_found)
        ELSE LET route == tbl[req.method][maybe_route]
                 params == FoldParams(route.dynamic_segments, raw_route, {})
                 r1 == [req EXCEPT !.route = maybe_route,
                                   !.handler = route.handler,
                                   !.params = params]
             IN  IF kind = "Router::add" THEN RouterAddCall(r1)
                 ELSE EndpointNewCall(r1)

RouteCount == Cardinality({ <<m, i>> \in Methods \X (1..MaxRoutes) :
                              m \in DOMAIN table /\ i <= Len(table[m]) })

Init ==
    /\ adapter \in {"Router::add", "Endpoint::new"}
    /\ table = <<>>
    /\ serving = FALSE
    /\ requests = [r \in Requests |-> IdleRequest]

Add_replacing(method, pattern) ==
    /\ ~serving
    /\ RouteCount < MaxRoutes
    /\ LET entry == IF method \in DOMAIN table THEN table[method] ELSE <<>>
           route == [static_segments |-> pattern.static_segments,
                     dynamic_segments |-> pattern.dynamic_segments,
                     handler |-> RouteCount + 1]
           same(i) == /\ entry[i].static_segments = route.static_segments
                      /\ entry[i].dynamic_segments = route.dynamic_segments
       IN  table' = [m \in (DOMAIN table) \cup {method} |->
                        IF m # method THEN table[m]
                        ELSE IF \E i \in 1..Len(entry) : same(i)
                        THEN [i \in 1..Len(entry) |->
                                 IF same(i) THEN route ELSE entry[i]]
                        ELSE Append(entry, route)]
    /\ UNCHANGED <<adapter, serving, requests>>

(* Router::add(method, route, endpoint) *)
Add(method, pattern) ==
    /\ ~serving
    /\ RouteCount < MaxRoutes
    /\ LET entry == IF method \in DOMAIN table THEN table[method] ELSE <<>>
           route == [static_segments |-> pattern.static_segments,
                     dynamic_segments |-> pattern.dynamic_segments,
                     handler |-> RouteCount + 1]
       IN  table' = [m \in (DOMAIN table) \cup {method} |->
                        IF m = method THEN Append(entry, route) ELSE table[m]]
    /\ UNCHANGED <<adapter, serving, requests>>

(* Server::run(router): the Router is shared from here on *)
Serve ==
    /\ ~serving
    /\ serving' = TRUE
    /\ UNCHANGED <<adapter, table, requests>>

(* an inbound http_types::Request *)
NewRequest(method, path, body, with_length, auth) ==
    [IdleRequest EXCEPT
        !.method = method, !.path = path, !.body = body,
        !.content_length = IF with_length THEN Some(ContentLengthOf(body)) ELSE None,
        !.authorization = auth]

(* request task r is handed req: Router::lookup(self: Arc<Self>, req) and the
   adapter up to its first await *)
Arrive_move_to_front(r, req) ==
    /\ serving
    /\ requests[r].pc = "idle"
    /\ requests' = [requests EXCEPT ![r] = lookup(table, adapter, req)]
    /\ LET hit == requests'[r].route
       IN  table' = IF hit = 0 THEN table
                    ELSE [table EXCEPT ![req.method] =
                             <<@[hit]>> \o SubSeq(@, 1, hit - 1)
                                        \o SubSeq(@, hit + 1, Len(@))]
    /\ UNCHANGED <<adapter, serving>>

Arrive(r, req) ==
    /\ serving
    /\ requests[r].pc = "idle"
    /\ requests' = [requests EXCEPT ![r] = lookup(table, adapter, req)]
    /\ UNCHANGED <<adapter, table, serving>>

(* a request arrives *)
Dispatch(r) ==
    \E method \in Methods, path \in Paths, body \in Bodies,
       with_length \in BOOLEAN, auth \in {None, Some("token")} :
       Arrive(r, NewRequest(method, path, body, with_length, auth))

BodyRead_shared_buffer(r) ==
    /\ requests[r].pc = "read"
    /\ \E io_ok \in BOOLEAN :
          LET others == { q \in Requests : q # r /\ IsSome(requests[q].buf) }
              shared == IF others = {} THEN requests[r].body
                        ELSE requests[CHOOSE q \in others : TRUE].body
              next == IF adapter = "Router::add"
                      THEN RouterAddRead(requests[r], io_ok)
                      ELSE EndpointNewRead(requests[r], io_ok)
          IN  requests' = [requests EXCEPT ![r] =
                              IF IsSome(next.buf)
                              THEN [next EXCEPT !.buf = Some(shared)]
                              ELSE next]
    /\ UNCHANGED <<adapter, table, serving>>

(* the body read completes, with or without an I/O error *)
BodyRead(r) ==
    /\ requests[r].pc = "read"
    /\ \E io_ok \in BOOLEAN :
          requests' = [requests EXCEPT ![r] =
                          IF adapter = "Router::add"
                          THEN RouterAddRead(requests[r], io_ok)
                          ELSE EndpointNewRead(requests[r], io_ok)]
    /\ UNCHANGED <<adapter, table, serving>>

(* the context extractor completes *)
ContextExtracted(r) ==
    /\ requests[r].pc = "context"
    /\ requests' = [requests EXCEPT ![r] = EndpointNewContext(requests[r])]
    /\ UNCHANGED <<adapter, table, serving>>

(* the user endpoint's future completes *)
HandlerReturned(r) ==
    /\ requests[r].pc = "handler"
    /\ \E result \in HandlerResults :
          requests' = [requests EXCEPT ![r] =
                          IF adapter = "Router::add"
                          THEN RouterAddReturn(requests[r], result)
                          ELSE EndpointNewReturn(requests[r], result)]
    /\ UNCHANGED <<adapter, table, serving>>

Step(r) ==
    \/ Dispatch(r)
    \/ BodyRead(r)
    \/ ContextExtracted(r)
    \/ HandlerReturned(r)

Register == \E method \in Methods, pattern \in Patterns : Add(method, pattern)

Next ==
    \/ Register
    \/ Serve
    \/ \E r \in Sequential : Step(r)

Spec == Init /\ [][Next]_vars

----------------------------------------------------------------------------
(* The path matcher on its own: one bucket, more route shapes and longer
   paths, with segments that differ in case only *)

MatchChars == {"/", "a", "A"}

MatchPaths ==
    UNION { { p \in [1..n -> MatchChars] : p[1] = "/" } : n \in 1..MaxMatchPathLen }

(* route!(/"a"), route!(/"a"/"A"), route!(/id), route!(/"a"/id),
   route!(/id/"a"), route!(/x/y), and /x/x, a Route whose two dynamic
   segments carry one name *)
MatchPatterns ==
    { [static_segments |-> <<StaticSegment(<<"a">>, 0)>>,
       dynamic_segments |-> <<>>],
      [static_segments |-> <<StaticSegment(<<"a">>, 0), StaticSegment(<<"A">>, 1)>>,
       dynamic_segments |-> <<>>],
      [static_segments |-> <<>>,
       dynamic_segments |-> <<DynamicSegment("id", 0)>>],
      [static_segments |-> <<StaticSegment(<<"a">>, 0)>>,
       dynamic_segments |-> <<DynamicSegment("id", 1)>>],
      [static_segments |-> <<StaticSegment(<<"a">>, 1)>>,
       dynamic_segments |-> <<DynamicSegment("id", 0)>>],
      [static_segments |-> <<>>,
       dynamic_segments |-> <<DynamicSegment("x", 0), DynamicSegment("y", 1)>>],
      [static_segments |-> <<>>,
       dynamic_segments |-> <<DynamicSegment("x", 0), DynamicSegment("x", 1)>>] }

MatchRegister == \E pattern \in MatchPatterns : Add("GET", pattern)

MatchDispatch(r) ==
    \E path \in MatchPaths :
       Arrive(r, NewRequest("GET", path, EmptyBody, FALSE, Some("token")))

MatchNext ==
    \/ MatchRegister
    \/ Serve
    \/ \E r \in Sequential :
          \/ MatchDispatch(r)
          \/ BodyRead(r)
          \/ ContextExtracted(r)
          \/ HandlerReturned(r)

SpecMatch == Init /\ [][MatchNext]_vars

(* Concurrent requests: every request may be in flight at once; a few whole
   requests against routes of one bucket *)

(* route!(/id), route!(/"a"/id) *)
ConcPatterns ==
    { [static_segments |-> <<>>,
       dynamic_segments |-> <<DynamicSegment("id", 0)>>],
      [static_segments |-> <<StaticSegment(<<"a">>, 0)>>,
       dynamic_segments |-> <<DynamicSegment("id", 1)>>] }

(* GET /a with a JSON body and its Content-Length; GET /a/b with
   Content-Length 0; GET /b with a body, no Content-Length and no
   Authorization; GET /a/a with a body and no Content-Length;
   GET /a/b/a, which no route matches *)
ConcInputs ==
    { NewRequest("GET", <<"/", "a">>, ValidBody, TRUE, Some("token")),
      NewRequest("GET", <<"/", "a", "/", "b">>, EmptyBody, TRUE, Some("token")),
      NewRequest("GET", <<"/", "b">>, InvalidBody, FALSE, None),
      NewRequest("GET", <<"/", "a", "/", "a">>, InvalidBody, FALSE, Some("token")),
      NewRequest("GET", <<"/", "a", "/", "b", "/", "a">>, InvalidBody, TRUE, None) }

ConcRegister == \E pattern \in ConcPatterns : Add("GET", pattern)

ConcDispatch(r) == \E req \in ConcInputs : Arrive(r, req)

ConcNext ==
    \/ ConcRegister
    \/ Serve
    \/ \E r \in Requests :
          \/ ConcDispatch(r)
          \/ BodyRead(r)
          \/ ContextExtracted(r)
          \/ HandlerReturned(r)

SpecConc == Init /\ [][ConcNext]_vars

(* The awaited futures complete: the body read, the context extractor and
   the user endpoint of every request in flight are polled until they are
   ready *)
Fairness ==
    \A r \in Requests :
        /\ WF_vars(BodyRead(r))
        /\ WF_vars(ContextExtracted(r))
        /\ WF_vars(HandlerReturned(r))

SpecLive == SpecConc /\ Fairness

----------------------------------------------------------------------------
(* Shorthands of the properties *)

Dispatched(r) == requests[r].pc # "idle"
Matched(r) == requests[r].route # 0
Done(r) == requests[r].pc = "done"
InLog(r, step) == \E i \in 1..Len(requests[r].log) : requests[r].log[i] = step
Invoked(r) == IsSome(requests[r].arg)
Bucket(r) ==
    IF requests[r].method \in DOMAIN table THEN table[requests[r].method] ELSE <<>>
RawOf(r) == from_path(requests[r].path)
SegmentCount(route) == Len(route.static_segments) + Len(route.dynamic_segments)
Miss(r) == \A i \in 1..Len(Bucket(r)) : ~paths_match(Bucket(r)[i], RawOf(r))
ContextOk(r) == IsSome(requests[r].context) /\ Unwrap(requests[r].context).ok
ContextFailed(r) == IsSome(requests[r].context) /\ ~Unwrap(requests[r].context).ok
ZeroLength(r) == requests[r].content_length = Some("0")
NonZeroLength(r) ==
    IsSome(requests[r].content_length) /\ Unwrap(requests[r].content_length) # "0"
ReadFailed(r) == requests[r].outcome.error = "read_to_end"
NotFoundResponse == Response(NotFound, "\"not found\"")

----------------------------------------------------------------------------
(* C1: a request to a matched route whose Content-Length header is present
   and equal to "0" never has its body deserialized, and once context
   extraction has succeeded the user handler is invoked with the default
   value of the request type. *)
C1_ZeroLengthSkipsDeserialization ==
    \A r \in Requests :
        (Matched(r) /\ ZeroLength(r)) =>
            /\ ~InLog(r, "from_slice")
            /\ ContextOk(r) => requests[r].arg = Some(ReqDefault)

(* C2: a request to a matched route that carries a body (Content-Length not
   "0") whose bytes are not valid JSON for the request type is answered with
   status 400 and the parser's error message, and the user handler is never
   invoked for it.  (A failed body read or a failed context extraction ends
   the request before the parse.) *)
C2_InvalidBodyIs400 ==
    \A r \in Requests :
        (Matched(r) /\ NonZeroLength(r) /\ ~from_slice(requests[r].body).ok) =>
            /\ ~Invoked(r)
            /\ (Done(r) /\ ~ReadFailed(r) /\ ~ContextFailed(r)) =>
                  requests[r].outcome =
                      Response(BadRequest,
                               Quote(from_slice(requests[r].body).msg))

(* C3: whenever the context extractor fails for a request, the request is
   answered with exactly the status and the message of the extractor's Error,
   and neither body deserialization nor the handler runs for it. *)
C3_ContextFailureShortCircuits ==
    \A r \in Requests :
        ContextFailed(r) =>
            /\ Done(r)
            /\ requests[r].outcome.kind = "response"
            /\ requests[r].outcome.status = Unwrap(requests[r].context).code
            /\ requests[r].outcome.body = Quote(Unwrap(requests[r].context).msg.s)
            /\ ~InLog(r, "from_slice")
            /\ ~InLog(r, "call")
            /\ ~Invoked(r)

(* C3 witness: the extractor failed for a request whose Content-Length made
   the pipeline expect a body to parse *)
C3_Witness ==
    \E r \in Requests :
        ContextFailed(r) /\ Done(r) /\ requests[r].has_body
            /\ requests[r].outcome.status = Unauthorized

(* C4: if several routes registered under the request's method match the
   path, the handler invoked is that of the route registered earliest among
   them: no matching route stands before the selected one in the bucket. *)
C4_FirstRegisteredWins ==
    \A r \in Requests :
        Matched(r) =>
            /\ requests[r].route \in 1..Len(Bucket(r))
            /\ paths_match(Bucket(r)[requests[r].route], RawOf(r))
            /\ requests[r].handler = Bucket(r)[requests[r].route].handler
            /\ \A j \in 1..Len(Bucket(r)) :
                  paths_match(Bucket(r)[j], RawOf(r)) => requests[r].route <= j

(* C4 witness: two routes of the bucket match, and the handler of the first
   one has been invoked *)
C4_Witness ==
    \E r \in Requests :
        /\ Matched(r) /\ Invoked(r)
        /\ \E j \in 1..Len(Bucket(r)) :
              /\ j > requests[r].route
              /\ paths_match(Bucket(r)[j], RawOf(r))
              /\ Bucket(r)[j].handler # requests[r].handler

(* C5 as stated: the response is 404 with the body "not found" (JSON) exactly
   when the method has no bucket or no route of its bucket matches the path. *)
C5_NotFoundExactlyOnMiss ==
    \A r \in Requests :
        Dispatched(r) => (requests[r].outcome = NotFoundResponse <=> Miss(r))

(* C5 as amended: when the method has no bucket or no route of its bucket
   matches the path, dispatch answers 404 with the body "not found" (JSON) and
   invokes no context extractor and no handler; a route registered under
   another method is never selected; and when a route matches, the answer is
   the one its own pipeline makes, which is this 404 only when the Error of
   its extractor or handler carries that code and message. *)
C5_MissIsNotFound ==
    \A r \in Requests :
        Dispatched(r) =>
            /\ Miss(r) =>
                  /\ Done(r)
                  /\ requests[r].outcome = NotFoundResponse
                  /\ ~Matched(r)
                  /\ requests[r].log = <<>>
                  /\ requests[r].context = None
                  /\ ~Invoked(r)
            /\ ~Miss(r) =>
                  /\ Matched(r)
                  /\ requests[r].handler = Bucket(r)[requests[r].route].handler
                  /\ \A m \in DOMAIN table : \A j \in 1..Len(table[m]) :
                        table[m][j].handler = requests[r].handler
                            => m = requests[r].method
                  /\ requests[r].outcome = NotFoundResponse =>
                        \/ /\ IsSome(requests[r].result)
                           /\ Unwrap(requests[r].result) = HErr(NotFound, "not found")
                        \/ /\ ContextFailed(r)
                           /\ Unwrap(requests[r].context).code = NotFound

(* C5 witness: a miss although a route of another method's bucket matches
   the path *)
C5_Witness ==
    \E r \in Requests :
        /\ Done(r) /\ Miss(r)
        /\ requests[r].outcome = NotFoundResponse
        /\ \E m \in DOMAIN table : \E j \in 1..Len(table[m]) :
              m # requests[r].method /\ paths_match(table[m][j], RawOf(r))

(* C6: whenever the user handler has returned Ok(value), for a value that has
   a JSON serialization, the response has status 200 and its body is that
   serialization. *)
C6_OkIs200WithSerializedBody ==
    \A r \in Requests :
        (/\ IsSome(requests[r].result)
         /\ Unwrap(requests[r].result).ok
         /\ to_vec(Unwrap(requests[r].result).res).ok) =>
            /\ Done(r)
            /\ requests[r].outcome.kind = "response"
            /\ requests[r].outcome.status = StatusOk
            /\ requests[r].outcome.body = "{\"success\":true}"

(* C6 witness: a handler returned Ok(TestResponse) and the request was
   answered with status 200 *)
C6_Witness ==
    \E r \in Requests :
        /\ IsSome(requests[r].result)
        /\ Unwrap(requests[r].result) = HOk(TestResponse)
        /\ requests[r].outcome.status = StatusOk

(* C7: for any Error produced by context extraction, body deserialization or
   the user handler, the response's status is the Error's code and its body
   is the serialization of the Error's message: never empty, never dropped. *)
C7_ErrorBecomesResponse ==
    \A r \in Requests :
        Done(r) =>
            /\ ContextFailed(r) =>
                  requests[r].outcome =
                      Response(Unwrap(requests[r].context).code,
                               Quote(Unwrap(requests[r].context).msg.s))
            /\ (InLog(r, "from_slice") /\ ~from_slice(Unwrap(requests[r].buf)).ok) =>
                  requests[r].outcome =
                      Response(BadRequest,
                               Quote(from_slice(Unwrap(requests[r].buf)).msg))
            /\ (IsSome(requests[r].result) /\ ~Unwrap(requests[r].result).ok) =>
                  requests[r].outcome =
                      Response(Unwrap(requests[r].result).code,
                               Quote(Unwrap(requests[r].result).msg.s))

(* C8: the outcome of a request dispatched to a matched route is a response
   in every case but an I/O fault of the body read: no context,
   deserialization, handler or response-encoding failure leaves the pipeline
   as a returned Err or a panic. *)
C8_OnlyReadFaultsEscape ==
    \A r \in Requests :
        (Matched(r) /\ Done(r)) =>
            \/ requests[r].outcome.kind = "response"
            \/ ReadFailed(r)

(* C9: when the handler returns Ok(value) and the value cannot be
   serialized, the pipeline answers with status 500 and the serialization
   error's message as the body. *)
C9_EncodingFailureIs500 ==
    \A r \in Requests :
        (/\ Done(r)
         /\ IsSome(requests[r].result)
         /\ Unwrap(requests[r].result).ok
         /\ ~to_vec(Unwrap(requests[r].result).res).ok) =>
            requests[r].outcome =
                Response(InternalServerError,
                         Quote(to_vec(Unwrap(requests[r].result).res).msg))

(* C10: a registered route whose static plus dynamic segment count differs
   from the number of raw segments of the request path does not match it and
   is never the route selected for the request. *)
C10_SegmentCountMustAgree ==
    \A r \in Requests :
        Dispatched(r) =>
            \A m \in DOMAIN table : \A i \in 1..Len(table[m]) :
                Len(RawOf(r)) # SegmentCount(table[m][i]) =>
                    /\ ~paths_match(table[m][i], RawOf(r))
                    /\ ~(m = requests[r].method /\ i = requests[r].route)

(* C10 witness: a route of the request's bucket agrees with the path on every
   segment it has and is passed over for its segment count alone *)
C10_Witness ==
    \E r \in Requests :
        /\ Done(r)
        /\ \E i \in 1..Len(Bucket(r)) :
              /\ Len(RawOf(r)) > SegmentCount(Bucket(r)[i])
              /\ paths_match_longer(Bucket(r)[i], RawOf(r))
              /\ i # requests[r].route

----------------------------------------------------------------------------
(* the raw segment values of a path, and the literals of a route by position *)
RawValues(path) == Tail(Split(path))
StaticOnly(route) == route.dynamic_segments = <<>>
Literals(route) ==
    [i \in 1..Len(route.static_segments) |->
        (CHOOSE st \in { route.static_segments[k] : k \in 1..Len(route.static_segments) } :
            st.position = i - 1).value]

(* C11: a route with only static segments matches a request path if and only
   if the path has as many segments as the route and every raw segment is
   exactly (case-sensitively, with no normalization) the literal at its
   position. *)
C11_StaticRouteMatchesExactly ==
    \A r \in Requests :
        Dispatched(r) =>
            \A i \in 1..Len(Bucket(r)) :
                StaticOnly(Bucket(r)[i]) =>
                    (paths_match(Bucket(r)[i], RawOf(r))
                        <=> RawValues(requests[r].path) = Literals(Bucket(r)[i]))

(* C11 witness: a static-only route of two segments was passed over for a
   path that has its literals in the other order (and so in the other case),
   and the request was served by a later route *)
C11_Witness ==
    \E r \in Requests :
        /\ Matched(r)
        /\ requests[r].path = <<"/", "A", "/", "a">>
        /\ \E i \in 1..Len(Bucket(r)) :
              /\ i < requests[r].route
              /\ StaticOnly(Bucket(r)[i])
              /\ Len(Bucket(r)[i].static_segments) = 2

----------------------------------------------------------------------------
(* C12 *)

SelectedRoute(r) == Bucket(r)[requests[r].route]
DynamicNames(route) ==
    { route.dynamic_segments[i].name : i \in 1..Len(route.dynamic_segments) }
DynamicAt(route, name) ==
    { i \in 1..Len(route.dynamic_segments) : route.dynamic_segments[i].name = name }

(* C12: a route whose segment count and literals agree with the path matches
   whatever the raw values at its dynamic positions are, and the Params of a
   matched request hold exactly one entry per dynamic-segment name of the
   selected route, no other entry, its value being the raw path segment at
   the position of the segment of that name, unchanged (the last such segment
   when two segments share the name) *)
C12_ParamsAreRawDynamicSegments ==
    \A r \in Requests :
        /\ Dispatched(r) =>
              \A i \in 1..Len(Bucket(r)) :
                  ( /\ SegmentCount(Bucket(r)[i]) = Len(RawOf(r))
                    /\ \A k \in 1..Len(Bucket(r)[i].static_segments) :
                          StaticEq(Bucket(r)[i].static_segments[k],
                                   RawOf(r)[Bucket(r)[i].static_segments[k].position + 1]) )
                  => paths_match(Bucket(r)[i], RawOf(r))
        /\ Matched(r) =>
              /\ { p.name : p \in requests[r].params } = DynamicNames(SelectedRoute(r))
              /\ \A name \in DynamicNames(SelectedRoute(r)) :
                    LET entries == { p \in requests[r].params : p.name = name }
                        last == CHOOSE i \in DynamicAt(SelectedRoute(r), name) :
                                    \A j \in DynamicAt(SelectedRoute(r), name) : j <= i
                    IN  /\ Cardinality(entries) = 1
                        /\ \A p \in entries :
                              p.value = RawValues(requests[r].path)
                                          [SelectedRoute(r).dynamic_segments[last].position + 1]

(* the handler of /"a"/id has run for the path /a/A: id is "A", the raw
   segment at position 1, not the literal at position 0 *)
C12_Witness ==
    \E r \in Requests :
        /\ Invoked(r)
        /\ requests[r].path = <<"/", "a", "/", "A">>
        /\ Len(SelectedRoute(r).static_segments) = 1
        /\ requests[r].params = { [name |-> "id", value |-> <<"A">>] }

----------------------------------------------------------------------------
(* C16 *)

(* C16: every response the router or an adapter produces, the 404 of a miss
   and the success and error responses alike, carries the Content-Type
   application/json *)
C16_ResponsesAreJson ==
    \A r \in Requests :
        requests[r].outcome.kind = "response" =>
            requests[r].outcome.content_type = Some(JSON)

----------------------------------------------------------------------------
(* C17 *)

(* C17: a request to a matched route whose Content-Length header is absent or
   not "0" and whose body is valid JSON for the request type has its handler
   invoked, once context extraction has succeeded, with the value
   deserialized from the body, not with the default value *)
C17_PresentBodyIsDeserialized ==
    \A r \in Requests :
        (Matched(r) /\ ~ZeroLength(r) /\ requests[r].body = ValidBody) =>
            /\ ContextOk(r) => Invoked(r)
            /\ Invoked(r) =>
                  /\ requests[r].arg = Some(from_slice(requests[r].body).req)
                  /\ requests[r].arg # Some(ReqDefault)

----------------------------------------------------------------------------
(* C18 *)

(* C18: every step that changes the route table is an add: one method's
   bucket, created when absent, gets one route appended at its end; the
   bucket's earlier routes keep their places, every other bucket is as it
   was, and no route is removed or replaced, an identical pattern included *)
C18_AddAppendsAtEnd ==
    [][ table' # table =>
          \E method \in Methods :
              LET old == IF method \in DOMAIN table THEN table[method] ELSE <<>>
              IN  /\ DOMAIN table' = DOMAIN table \cup {method}
                  /\ \A m \in DOMAIN table : m # method => table'[m] = table[m]
                  /\ Len(table'[method]) = Len(old) + 1
                  /\ SubSeq(table'[method], 1, Len(old)) = old ]_vars

(* one pattern registered twice under a method: both routes are in the
   bucket, in registration order *)
C18_Witness ==
    \E m \in DOMAIN table :
        /\ Len(table[m]) = 2
        /\ table[m][1].static_segments = table[m][2].static_segments
        /\ table[m][1].dynamic_segments = table[m][2].dynamic_segments
        /\ table[m][1].handler = 1
        /\ table[m][2].handler = 2

----------------------------------------------------------------------------
(* C19 *)

Precedes(r, first, second) ==
    \A j \in 1..Len(requests[r].log) :
        requests[r].log[j] = second =>
            \E i \in 1..(j - 1) : requests[r].log[i] = first

ReadBeforeContext(r) ==
    /\ Precedes(r, "read_to_end", "from_parts")
    /\ InLog(r, "from_parts") => requests[r].buf = Some(requests[r].body)

(* C19: for a request to a matched route the body has been read to its end
   when context extraction begins, and when the request is bodyless
   (Content-Length "0") the bytes read are never decoded *)
C19_BodyDrainedThenContext ==
    \A r \in Requests :
        Matched(r) =>
            /\ ReadBeforeContext(r)
            /\ ZeroLength(r) => ~InLog(r, "from_slice")

----------------------------------------------------------------------------
(* C20 *)

Calls(r) == { i \in 1..Len(requests[r].log) : requests[r].log[i] = "call" }

OneHandlerOnce(r) ==
    /\ Cardinality(Calls(r)) <= 1
    /\ Invoked(r) <=> Calls(r) # {}
    /\ Invoked(r) =>
          /\ Matched(r)
          /\ requests[r].handler = Bucket(r)[requests[r].route].handler
          /\ \A m \in DOMAIN table : \A i \in 1..Len(table[m]) :
                table[m][i].handler = requests[r].handler =>
                    (m = requests[r].method /\ i = requests[r].route)

OneOutcome(r) ==
    /\ requests[r].outcome.kind \in {"none", "response", "err", "panic"}
    /\ Done(r) <=> requests[r].outcome.kind # "none"

(* C20: a dispatched request has the handler of its selected route invoked at
   most once and no handler of any other route, a request that matches no
   route has none invoked, and the dispatch ends in one outcome, a response
   or a fault, that nothing changes afterwards *)
C20_OneHandlerOneOutcome ==
    /\ [](\A r \in Requests : OneHandlerOnce(r) /\ OneOutcome(r))
    /\ [][\A r \in Requests : Done(r) => requests'[r] = requests[r]]_vars

(* the second of two routes of a bucket was selected, its handler ran and
   returned an error, and the request is answered *)
C20_Witness ==
    \E r \in Requests :
        /\ Done(r)
        /\ Invoked(r)
        /\ requests[r].route = 2
        /\ requests[r].handler = 2
        /\ IsSome(requests[r].result)
        /\ ~Unwrap(requests[r].result).ok
        /\ requests[r].outcome.kind = "response"

----------------------------------------------------------------------------
(* C13 *)

Rank(step) ==
    CASE step = "read_to_end" -> 1
      [] step = "from_parts" -> 2
      [] step = "from_slice" -> 3
      [] step = "call" -> 4
      [] step = "to_vec" -> 5

(* the step a request is suspended in is the last one it started *)
SuspendedIn(r) ==
    /\ requests[r].pc = "read" =>
          requests[r].log[Len(requests[r].log)] = "read_to_end"
    /\ requests[r].pc = "context" =>
          requests[r].log[Len(requests[r].log)] = "from_parts"
    /\ requests[r].pc = "handler" =>
          requests[r].log[Len(requests[r].log)] = "call"

(* C13: within a request the steps that run start in the order body read,
   context extraction, deserialization, handler, serialization, each once and
   only after the one before it has completed, however the steps of the
   other requests are interleaved with them *)
C13_StepsInPipelineOrder ==
    \A r \in Requests :
        /\ \A i, j \in 1..Len(requests[r].log) :
              i < j => Rank(requests[r].log[i]) < Rank(requests[r].log[j])
        /\ SuspendedIn(r)

(* one request has gone through read, context, handler and serialization
   while another, dispatched before the first was answered, waits for its
   handler *)
C13_Witness ==
    \E r1, r2 \in Requests :
        /\ r1 # r2
        /\ Done(r1)
        /\ requests[r1].log = <<"read_to_end", "from_parts", "call", "to_vec">>
        /\ requests[r2].pc = "handler"
        /\ requests[r2].log = <<"read_to_end", "from_parts", "call">>
        /\ requests[r2].buf # requests[r1].buf

----------------------------------------------------------------------------
(* C14 *)

(* C14: once the router serves, no step of any request, the resolution of a
   route, the production of a 404 or the run of a handler, changes the route
   table *)
C14_TableFrozenWhileServing ==
    [][serving => table' = table]_vars

(* two requests in flight against a table of two routes: one answered 404,
   the other past its handler *)
C14_Witness ==
    \E r1, r2 \in Requests :
        /\ serving
        /\ \E m \in DOMAIN table : Len(table[m]) = 2
        /\ requests[r1].outcome = NotFoundResponse
        /\ Matched(r2) /\ Done(r2) /\ Invoked(r2)

----------------------------------------------------------------------------
(* C15 *)

InputOf(req) ==
    [IdleRequest EXCEPT
        !.method = req.method, !.path = req.path, !.body = req.body,
        !.content_length = req.content_length,
        !.authorization = req.authorization]

(* the states a request in state s can be in after its next suspension
   point, when it is the only request *)
SoloStep(s) ==
    IF s.pc = "read"
    THEN { IF adapter = "Router::add" THEN RouterAddRead(s, io_ok)
           ELSE EndpointNewRead(s, io_ok) : io_ok \in BOOLEAN }
    ELSE IF s.pc = "context" THEN { EndpointNewContext(s) }
    ELSE IF s.pc = "handler"
    THEN { IF adapter = "Router::add" THEN RouterAddReturn(s, result)
           ELSE EndpointNewReturn(s, result) : result \in HandlerResults }
    ELSE {}

SoloSteps(states) == states \cup UNION { SoloStep(s) : s \in states }

(* every state of the request dispatched alone against the table *)
Alone(req) ==
    SoloSteps(SoloSteps(SoloSteps({ lookup(table, adapter, req) })))

(* C15: whatever the interleaving, the Params, context, body buffer and
   response of every request in flight are those of a run of that request
   alone against the same table, and a step of one request leaves every
   other request as it was *)
C15_RequestsAreIsolated ==
    /\ [](\A r \in Requests :
            Dispatched(r) => requests[r] \in Alone(InputOf(requests[r])))
    /\ [][\A r1, r2 \in Requests :
            (r1 # r2 /\ requests'[r1] # requests[r1]) =>
                requests'[r2] = requests[r2]]_vars

(* two requests with different bodies, both past the body read: one is
   answered, the other is still in its handler *)
C15_Witness ==
    \E r1, r2 \in Requests :
        /\ IsSome(requests[r1].buf) /\ IsSome(requests[r2].buf)
        /\ requests[r1].buf # requests[r2].buf
        /\ requests[r1].params # requests[r2].params
        /\ requests[r1].outcome.kind = "response"
        /\ requests[r2].pc = "handler"

----------------------------------------------------------------------------
(* C21 *)

Slashes(path) == { i \in 1..Len(path) : path[i] = "/" }
TrailingSlash(path) == Len(path) > 1 /\ path[Len(path)] = "/"
Empty == <<>>

(* C21: splitting keeps every empty segment but the leading one, so a path
   has as many raw segments as slashes: "/" yields one raw segment of empty
   value and a trailing slash adds an empty last segment; a route that
   matches a path does not match that path with a slash appended; and a
   dynamic segment whose raw segment is empty matches and captures the empty
   string *)
C21_EmptySegmentsAreKept ==
    \A r \in Requests :
        Dispatched(r) =>
            LET path == requests[r].path
                raw == RawOf(r)
            IN  /\ Len(raw) = Cardinality(Slashes(path))
                /\ \A i \in 1..Len(raw) : raw[i].position = i - 1
                /\ path = <<"/">> => raw = <<[value |-> Empty, position |-> 0]>>
                /\ TrailingSlash(path) =>
                      /\ raw[Len(raw)].value = Empty
                      /\ SubSeq(raw, 1, Len(raw) - 1)
                            = from_path(SubSeq(path, 1, Len(path) - 1))
                /\ \A i \in 1..Len(Bucket(r)) :
                      paths_match(Bucket(r)[i], raw) =>
                          ~paths_match(Bucket(r)[i], from_path(path \o <<"/">>))
                /\ Matched(r) =>
                      \A k \in 1..Len(SelectedRoute(r).dynamic_segments) :
                          LET d == SelectedRoute(r).dynamic_segments[k]
                          IN  (raw[d.position + 1].value = Empty
                                 /\ Cardinality(DynamicAt(SelectedRoute(r), d.name)) = 1)
                              => [name |-> d.name, value |-> Empty]
                                     \in requests[r].params

(* GET /a/ against the bucket /"a", /"a"/id: the one-segment route, which
   matches /a, is passed over, and the handler of /"a"/id runs with id
   empty *)
C21_Witness ==
    \E r \in Requests :
        /\ Invoked(r)
        /\ requests[r].path = <<"/", "a", "/">>
        /\ requests[r].route = 2
        /\ StaticOnly(Bucket(r)[1])
        /\ paths_match(Bucket(r)[1], from_path(<<"/", "a">>))
        /\ requests[r].params = { [name |-> "id", value |-> Empty] }

----------------------------------------------------------------------------
(* C22 *)

ResponseOrReadFault(r) ==
    \/ requests[r].outcome.kind = "response"
    \/ requests[r].outcome.kind = "err" /\ ReadFailed(r)

(* every dispatched request is eventually done, whatever the other requests
   do *)
Terminates == \A r \in Requests : Dispatched(r) ~> Done(r)

(* C22: when the body read, the context extractor and the handler of a
   request each complete, every dispatched request eventually completes
   with an outcome that is a response or a body-read fault *)
C22_EventuallyResponseOrReadFault ==
    \A r \in Requests : Dispatched(r) ~> (Done(r) /\ ResponseOrReadFault(r))

============================================================================
